---- MODULE Spec2Model ----
(***************************************************************************)
(* RetryTransport of keboola/python-http-client                            *)
(* (src/src/keboola/http_client/retry_wrapper.py): a transport that wraps  *)
(* an inner httpx transport and resends a request while the response       *)
(* status is retryable and attempts remain.                                *)
(*                                                                         *)
(* Durations (sleep_for, backoff_factor, max_backoff_wait) are in          *)
(* milliseconds, so that the default backoff_factor 0.1 s and its jitter   *)
(* are integers; jitter_ratio is in percent (0.1 is 10, 0.5 is 50).  The   *)
(* clock and the instants timestamps denote are whole seconds counted from *)
(* 2030-01-01T00:00:00 local time.  Texts are sequences of one-character   *)
(* strings, so that strip, isdigit, float and isoparse are computed.       *)
(*                                                                         *)
(* Spec and FairSpec follow one call of either handler; SleepSpec applies  *)
(* _calculate_sleep to wide inputs; ConstructSpec is the constructor with  *)
(* any jitter_ratio; AsyncSpec runs handle_async_request in two tasks of   *)
(* one event loop; PairSpec runs handle_request and then                   *)
(* handle_async_request on what handle_request was given; ClientSpec is    *)
(* the constructor and _request_raw of HttpClient (http.py) and of         *)
(* AsyncHttpClient (async_client.py), the callers of the transport.        *)
(***************************************************************************)
EXTENDS Integers, Sequences, FiniteSets

VARIABLES
    pc,                  \* position: "new", "ValueError", "idle", "loop", "close",
                         \* "calc", "resend", "returned", "raised", "calculated"
    args,                \* the arguments __init__ is called with
    self,                \* the transport's fields
    handler,             \* entry point of the logical request
    request,             \* the outbound request
    response,            \* local `response` of the handler
    remaining_attempts,  \* local of the handler
    attempts_made,       \* local of the handler
    sleep_for,           \* local of the handler: last value of _calculate_sleep
    now,                 \* the time datetime.now() reads
    choice,              \* last result of random.choice([1, -1])
    exception,           \* the exception that left the handler, or "None"
    trace,               \* what the handler did to the outside and what came back, in
                         \* order: send, response, raise, close, sleep
    tasks,               \* the asyncio tasks running handle_async_request on one
                         \* event loop: for each its position, locals and trace
    running,             \* the task that holds the event loop's thread, or 0
    inputs,              \* what the inner transport, random.choice and the clock gave
                         \* to handle_request, in order
    client,              \* the fields of an HttpClient or AsyncHttpClient
    calls                \* the calls of the client's _request_raw, in order: what each
                         \* was given, the session it prepared and how it ended

\* the state of one call of handle_request or handle_async_request
loop_vars == <<pc, args, self, handler, request, response, remaining_attempts,
               attempts_made, sleep_for, choice, exception, trace>>

\* the state of the event loop and its tasks
async_vars == <<tasks, running, inputs>>

\* the state of an HttpClient or AsyncHttpClient and the log of its calls
client_vars == <<client, calls>>

vars == <<pc, args, self, handler, request, response, remaining_attempts,
          attempts_made, sleep_for, now, choice, exception, trace, tasks, running,
          inputs, client, calls>>

----------------------------------------------------------------------------
(* Bounds *)

\* largest max_attempts the constructor is called with (the smallest is -1),
\* and largest attempts_made _calculate_sleep is applied to
MaxAttempts == 3

\* the calls of _request_raw followed on one client
MaxCalls == 2

----------------------------------------------------------------------------
(* Python text, as sequences of characters *)

DigitChars == <<"0", "1", "2", "3", "4", "5", "6", "7", "8", "9">>

\* the character U+00B2 (superscript two), which a server sends as the byte B2:
\* a digit for str.isdigit(), not a decimal for str.isdecimal(), and no
\* number for float()
SUPERSCRIPT_TWO == "U+00B2"

IsDecimalChar(c) == \E i \in 1..10 : DigitChars[i] = c

IsDigitChar(c) == IsDecimalChar(c) \/ c = SUPERSCRIPT_TWO

DigitValue(c) == (CHOOSE i \in 1..10 : DigitChars[i] = c) - 1

\* str.isdigit(): non-empty and every character a digit
isdigit(s) == Len(s) > 0 /\ \A i \in 1..Len(s) : IsDigitChar(s[i])

\* str.isdecimal(): non-empty and every character a decimal digit
isdecimal(s) == Len(s) > 0 /\ \A i \in 1..Len(s) : IsDecimalChar(s[i])

RECURSIVE lstrip(_)
lstrip(s) == IF Len(s) > 0 /\ Head(s) = " " THEN lstrip(Tail(s)) ELSE s

RECURSIVE rstrip(_)
rstrip(s) ==
    IF Len(s) > 0 /\ s[Len(s)] = " " THEN rstrip(SubSeq(s, 1, Len(s) - 1)) ELSE s

\* str.strip()
strip(s) == lstrip(rstrip(s))

\* the decimal value of a digit string
RECURSIVE DecimalValue(_)
DecimalValue(s) ==
    IF Len(s) = 0 THEN 0
    ELSE 10 * DecimalValue(SubSeq(s, 1, Len(s) - 1)) + DigitValue(s[Len(s)])

\* whether float(s) of a text with isdigit(s) raises ValueError
float_raises(s) == ~isdecimal(s)

\* float(s) of a decimal digit string, in milliseconds
float(s) == 1000 * DecimalValue(s)

\* str(n) for n >= 0
RECURSIVE str(_)
str(n) ==
    IF n < 10 THEN <<DigitChars[n + 1]>>
    ELSE Append(str(n \div 10), DigitChars[(n % 10) + 1])

----------------------------------------------------------------------------
(* dateutil.parser.isoparse on the forms YYYY, YYYY-MM-DD and              *)
(* YYYY-MM-DDTHH:MM:SS (no zone: local time); every other text is a        *)
(* ValueError.  The result is the instant in seconds since                 *)
(* 2030-01-01T00:00:00 local time.                                         *)

IsLeap(y) == (y % 4 = 0 /\ y % 100 # 0) \/ y % 400 = 0

DaysInMonth(y, m) ==
    IF m = 2 THEN (IF IsLeap(y) THEN 29 ELSE 28)
    ELSE IF m \in {4, 6, 9, 11} THEN 30 ELSE 31

\* days from 0000-03-01 to y-m-d (proleptic Gregorian)
DaysFromCivil(y, m, d) ==
    LET yy == IF m <= 2 THEN y - 1 ELSE y
        mm == IF m <= 2 THEN m + 9 ELSE m - 3
    IN  365 * yy + (yy \div 4) - (yy \div 100) + (yy \div 400)
          + ((153 * mm + 2) \div 5) + (d - 1)

Instant(y, m, d, hh, mi, ss) ==
    (DaysFromCivil(y, m, d) - DaysFromCivil(2030, 1, 1)) * 86400
      + hh * 3600 + mi * 60 + ss

Field(s, from, to) == DecimalValue(SubSeq(s, from, to))

IsField(s, from, to) == isdecimal(SubSeq(s, from, to))

IsIsoDate(s) ==
    /\ Len(s) >= 10
    /\ IsField(s, 1, 4) /\ s[5] = "-" /\ IsField(s, 6, 7) /\ s[8] = "-"
    /\ IsField(s, 9, 10)
    /\ Field(s, 1, 4) >= 1
    /\ Field(s, 6, 7) \in 1..12
    /\ Field(s, 9, 10) \in 1..DaysInMonth(Field(s, 1, 4), Field(s, 6, 7))

IsIsoTime(s) ==
    /\ Len(s) = 19
    /\ s[11] = "T"
    /\ IsField(s, 12, 13) /\ s[14] = ":" /\ IsField(s, 15, 16) /\ s[17] = ":"
    /\ IsField(s, 18, 19)
    /\ Field(s, 12, 13) \in 0..23
    /\ Field(s, 15, 16) \in 0..59
    /\ Field(s, 18, 19) \in 0..59

\* whether isoparse(s) returns (TRUE) or raises ValueError (FALSE)
isoparse_ok(s) ==
    \/ Len(s) = 4 /\ isdecimal(s) /\ DecimalValue(s) >= 1
    \/ Len(s) = 10 /\ IsIsoDate(s)
    \/ Len(s) = 19 /\ IsIsoDate(s) /\ IsIsoTime(s)

\* isoparse(s).astimezone() of a text with isoparse_ok(s)
isoparse(s) ==
    IF Len(s) = 4 THEN Instant(DecimalValue(s), 1, 1, 0, 0, 0)
    ELSE IF Len(s) = 10
         THEN Instant(Field(s, 1, 4), Field(s, 6, 7), Field(s, 9, 10), 0, 0, 0)
         ELSE Instant(Field(s, 1, 4), Field(s, 6, 7), Field(s, 9, 10),
                      Field(s, 12, 13), Field(s, 15, 16), Field(s, 18, 19))

----------------------------------------------------------------------------
(* Texts written the way a server writes them *)

\* n as two decimal digits
Pad2(n) == <<DigitChars[(n \div 10) + 1], DigitChars[(n % 10) + 1]>>

\* datetime.isoformat() of a local time without zone: YYYY-MM-DDTHH:MM:SS
isoformat(y, m, d, hh, mi, ss) ==
    str(y) \o <<"-">> \o Pad2(m) \o <<"-">> \o Pad2(d) \o <<"T">>
      \o Pad2(hh) \o <<":">> \o Pad2(mi) \o <<":">> \o Pad2(ss)

----------------------------------------------------------------------------
(* Values the model draws from *)

None == "None"

Handlers == {"handle_request", "handle_async_request"}

\* request methods: two of the default retryable set, two outside it
Methods == {"GET", "PUT", "POST", "PATCH"}

\* response statuses: success, two of the default retryable set, a server error
Statuses == {200, 429, 503, 500}

\* exceptions of the inner transport
TransportErrors == {"ConnectError", "ReadTimeout"}

RETRY_AFTER == "Retry-After"

\* a headers mapping: a set of <<name, value>> pairs
NoHeaders == {}

RetryAfter(text) == {<<RETRY_AFTER, text>>}

\* Retry-After: a number of seconds
IntegerHints == {0, 5, 90}

\* Retry-After: a timestamp, with the instant it denotes (seconds since
\* 2030-01-01T00:00:00 local time)
TimestampHints ==
    { [text |-> isoformat(2030, 1, 1, 0, 0, 30), instant |-> 30],
      [text |-> isoformat(2030, 1, 1, 0, 2, 0), instant |-> 120],
      [text |-> isoformat(2029, 12, 31, 23, 59, 0), instant |-> -60],
      [text |-> SubSeq(isoformat(2030, 1, 2, 0, 0, 0), 1, 10), instant |-> 86400] }

\* Retry-After: a calendar year, which is both a digit string and a timestamp
\* isoparse accepts (2030 is 2030-01-01T00:00:00)
YearHints ==
    { [text |-> str(2030), instant |-> 0] }

\* Retry-After: neither digits nor a timestamp isoparse accepts
GarbageHints == { <<"s", "o", "o", "n">>, <<"-", "5">>, <<"5", ".", "5">> }

\* Retry-After: digits for str.isdigit() that float() does not convert
DigitLikeHints == { <<SUPERSCRIPT_TWO>>, <<"1", SUPERSCRIPT_TWO>> }

\* Retry-After: empty after strip()
BlankHints == { <<>>, <<" ">> }

HintTexts ==
    {str(n) : n \in IntegerHints} \cup {<<" ">> \o str(7) \o <<" ">>}
      \cup {t.text : t \in TimestampHints} \cup {t.text : t \in YearHints}
      \cup GarbageHints \cup DigitLikeHints \cup BlankHints

\* the headers _calculate_sleep is applied to
AllHeaders == {NoHeaders} \cup {RetryAfter(t) : t \in HintTexts}

\* the headers of the inner transport's responses in the retry loop
LoopHeaders ==
    {NoHeaders, RetryAfter(str(5)), RetryAfter(isoformat(2030, 1, 1, 0, 0, 30)),
     RetryAfter(<<SUPERSCRIPT_TWO>>)}

\* the times _calculate_sleep is called at, seconds since 2030-01-01T00:00:00
\* local time
NowValues == {-100, 0, 30, 45}

----------------------------------------------------------------------------
(* RetryTransport: class attributes and constructor *)

RETRYABLE_METHODS == {"HEAD", "GET", "PUT", "DELETE", "OPTIONS", "TRACE"}

RETRYABLE_STATUS_CODES == {413, 429, 503, 504}

\* 60 seconds
MAX_BACKOFF_WAIT == 60 * 1000

\* an Iterable argument that defaults to None
NoneArg == [given |-> FALSE, items |-> {}]

Arg(items) == [given |-> TRUE, items |-> items]

\* Python truth value of such an argument: None and empty collections are false
Truthy(a) == a.given /\ a.items # {}

\* the fields before __init__ has assigned them
Unassigned ==
    [max_attempts |-> 0, backoff_factor |-> 0, respect_retry_after_header |-> FALSE,
     retryable_methods |-> {}, retry_status_codes |-> {}, jitter_ratio |-> 0,
     max_backoff_wait |-> 0]

\* RaisesValueError with line 36 testing the upper limit only
RaisesValueError_upper_only(a) == a.jitter_ratio > 50

\* __init__, lines 36-37: the arguments it rejects
RaisesValueError(a) == a.jitter_ratio < 0 \/ a.jitter_ratio > 50

\* Fields with lines 42-43 testing `is not None`: an empty collection is kept
Fields_empty_kept(a) ==
    [max_attempts |-> a.max_attempts,
     backoff_factor |-> a.backoff_factor,
     respect_retry_after_header |-> a.respect_retry_after_header,
     retryable_methods |->
        IF a.retryable_methods.given THEN a.retryable_methods.items
        ELSE RETRYABLE_METHODS,
     retry_status_codes |->
        IF a.retry_status_codes.given THEN a.retry_status_codes.items
        ELSE RETRYABLE_STATUS_CODES,
     jitter_ratio |-> a.jitter_ratio,
     max_backoff_wait |-> a.max_backoff_wait]

\* __init__, lines 39-45: the fields it assigns
Fields(a) ==
    [max_attempts |-> a.max_attempts,
     backoff_factor |-> a.backoff_factor,
     respect_retry_after_header |-> a.respect_retry_after_header,
     retryable_methods |->
        IF Truthy(a.retryable_methods) THEN a.retryable_methods.items
        ELSE RETRYABLE_METHODS,
     retry_status_codes |->
        IF Truthy(a.retry_status_codes) THEN a.retry_status_codes.items
        ELSE RETRYABLE_STATUS_CODES,
     jitter_ratio |-> a.jitter_ratio,
     max_backoff_wait |-> a.max_backoff_wait]

\* the constructor calls of the retry-loop specification
LoopArgs ==
    [max_attempts : -1..MaxAttempts,
     max_backoff_wait : {MAX_BACKOFF_WAIT},
     backoff_factor : {100, -100},
     jitter_ratio : {10, 60},
     respect_retry_after_header : BOOLEAN,
     retryable_methods : {NoneArg, Arg({"POST", "GET"})},
     retry_status_codes : {NoneArg, Arg({500})}]

\* the constructor calls of the construction specification: jitter_ratio
\* below, at, between, and above the limits 0 and 0.5
ConstructArgs ==
    [max_attempts : 0..MaxAttempts,
     max_backoff_wait : {MAX_BACKOFF_WAIT},
     backoff_factor : {100},
     jitter_ratio : {-10, -1, 0, 10, 50, 51, 60},
     respect_retry_after_header : BOOLEAN,
     retryable_methods : {NoneArg, Arg({}), Arg({"POST"})},
     retry_status_codes : {NoneArg, Arg({}), Arg({500})}]

\* the constructor calls of the side-by-side specification
PairArgs ==
    [max_attempts : {0, MaxAttempts},
     max_backoff_wait : {MAX_BACKOFF_WAIT},
     backoff_factor : {100},
     jitter_ratio : {10},
     respect_retry_after_header : BOOLEAN,
     retryable_methods : {NoneArg},
     retry_status_codes : {NoneArg}]

\* the constructor calls behind the transport the tasks of one event loop share
AsyncArgs ==
    [max_attempts : 1..MaxAttempts,
     max_backoff_wait : {MAX_BACKOFF_WAIT},
     backoff_factor : {100},
     jitter_ratio : {0},
     respect_retry_after_header : {TRUE},
     retryable_methods : {NoneArg},
     retry_status_codes : {NoneArg}]

\* the constructor calls behind the transports _calculate_sleep is applied to
SleepArgs ==
    [max_attempts : {MaxAttempts},
     max_backoff_wait : {MAX_BACKOFF_WAIT, 30 * 1000, 150},
     backoff_factor : {100, 300},
     jitter_ratio : {0, 10, 50},
     respect_retry_after_header : BOOLEAN,
     retryable_methods : {NoneArg},
     retry_status_codes : {NoneArg}]

----------------------------------------------------------------------------
(* RetryTransport._calculate_sleep *)

Min(a, b) == IF a <= b THEN a ELSE b

\* headers.get(name): the value, or None (here the empty text, which is what
\* line 49 turns None into)
Get(headers, name) ==
    IF \E p \in headers : p[1] = name
    THEN (CHOOSE p \in headers : p[1] = name)[2]
    ELSE <<>>

\* line 49
retry_after_header(headers) == strip(Get(headers, RETRY_AFTER))

\* line 50 true and line 51 false: isoparse is called
CallsIsoparse(s, headers) ==
    /\ s.respect_retry_after_header
    /\ retry_after_header(headers) # <<>>
    /\ ~isdigit(retry_after_header(headers))

\* line 56 is reached: datetime.now() is read
ReadsClock(s, headers) ==
    CallsIsoparse(s, headers) /\ isoparse_ok(retry_after_header(headers))

\* ComputedBackoff with line 62 raising 2 to attempts_made
ComputedBackoff_next_power(s, made, sign) ==
    LET backoff == s.backoff_factor * (2 ^ made)
        jitter == ((backoff * s.jitter_ratio) \div 100) * sign
        total_backoff == backoff + jitter
    IN  Min(total_backoff, s.max_backoff_wait)

\* lines 62-65 with random.choice returning sign
ComputedBackoff(s, made, sign) ==
    LET backoff == s.backoff_factor * (2 ^ (made - 1))
        jitter == ((backoff * s.jitter_ratio) \div 100) * sign
        total_backoff == backoff + jitter
    IN  Min(total_backoff, s.max_backoff_wait)

\* line 56: diff, in seconds
Diff(text, clock) == isoparse(text) - clock

\* line 57 true: line 58 returns
ReturnsTimestampHint(s, headers, clock) ==
    /\ ReadsClock(s, headers)
    /\ Diff(retry_after_header(headers), clock) > 0

\* line 63 is reached: random.choice is called
CallsRandom(s, headers, clock) ==
    /\ ~(s.respect_retry_after_header /\ isdigit(retry_after_header(headers)))
    /\ ~ReturnsTimestampHint(s, headers, clock)

\* line 52 raises: the text passes isdigit() at line 51 and float() rejects it
\* outside the try of lines 54-60
CalculateSleepRaises(s, headers) ==
    /\ s.respect_retry_after_header
    /\ isdigit(retry_after_header(headers))
    /\ float_raises(retry_after_header(headers))

\* _calculate_sleep with the integer hint capped at max_backoff_wait like the
\* other two results
_calculate_sleep_hint_capped(s, made, headers, clock, sign) ==
    LET text == retry_after_header(headers)
    IN  IF s.respect_retry_after_header /\ text # <<>> /\ isdigit(text)
        THEN Min(float(text), s.max_backoff_wait)
        ELSE IF ReturnsTimestampHint(s, headers, clock)
             THEN Min(1000 * Diff(text, clock), s.max_backoff_wait)
             ELSE ComputedBackoff(s, made, sign)

\* _calculate_sleep with line 58 returning diff itself
_calculate_sleep_diff_uncapped(s, made, headers, clock, sign) ==
    LET text == retry_after_header(headers)
    IN  IF s.respect_retry_after_header /\ text # <<>> /\ isdigit(text)
        THEN float(text)
        ELSE IF ReturnsTimestampHint(s, headers, clock)
             THEN 1000 * Diff(text, clock)
             ELSE ComputedBackoff(s, made, sign)

\* _calculate_sleep with line 50 not looking at respect_retry_after_header
_calculate_sleep_flag_ignored(s, made, headers, clock, sign) ==
    LET text == retry_after_header(headers)
    IN  IF text # <<>> /\ isdigit(text)
        THEN float(text)
        ELSE IF ReturnsTimestampHint(s, headers, clock)
             THEN Min(1000 * Diff(text, clock), s.max_backoff_wait)
             ELSE ComputedBackoff(s, made, sign)

\* _calculate_sleep(attempts_made, headers) when datetime.now() reads clock
\* and random.choice returns sign
_calculate_sleep(s, made, headers, clock, sign) ==
    LET text == retry_after_header(headers)
    IN  IF s.respect_retry_after_header /\ text # <<>> /\ isdigit(text)
        THEN float(text)
        ELSE IF ReturnsTimestampHint(s, headers, clock)
             THEN Min(1000 * Diff(text, clock), s.max_backoff_wait)
             ELSE ComputedBackoff(s, made, sign)

----------------------------------------------------------------------------
(* The state before a request *)

\* the asyncio tasks that call handle_async_request
Tasks == {1, 2}

NoResponse == [id |-> 0, status_code |-> 0, headers |-> NoHeaders]

NoRequest == [method |-> None, url |-> None, headers |-> {}]

\* the outbound request: method, URL and headers
URL == "https://connection.keboola.com/v2/storage"

RequestHeaders == {<<"X-StorageApi-Token", "token">>}

Request(m) == [method |-> m, url |-> URL, headers |-> RequestHeaders]

Event(op, id, arg) == [op |-> op, id |-> id, arg |-> arg]

\* the number of events of kind op in the trace t
Count(t, op) == Cardinality({i \in 1..Len(t) : t[i].op = op})

\* the number of times the inner transport has been called
Sends == Count(trace, "send")

\* the number of times the response with this id has been closed
Closes(id) == Cardinality({i \in 1..Len(trace) : trace[i].op = "close" /\ trace[i].id = id})

\* a task that has not called handle_async_request
IdleTask ==
    [pc |-> "idle", request |-> NoRequest, response |-> NoResponse,
     remaining_attempts |-> 0, attempts_made |-> 0, sleep_for |-> 0,
     exception |-> None, cancelled |-> FALSE, trace |-> <<>>]

\* no task on the event loop
NoTasks ==
    /\ tasks = [t \in Tasks |-> IdleTask]
    /\ running = 0
    /\ inputs = <<>>

\* a client that has made no session yet (async_client.py line 85)
NoSession == [open |-> FALSE, headers |-> {}, auth |-> None]

\* no HttpClient or AsyncHttpClient has been constructed
NoClient ==
    /\ client = [class |-> None, max_retries |-> 0, _auth |-> None, _auth_header |-> {},
                 _default_header |-> {}, _default_params |-> NoneArg,
                 session |-> NoSession]
    /\ calls = <<>>

Init ==
    /\ pc = "new"
    /\ args \in LoopArgs
    /\ self = Unassigned
    /\ handler = None
    /\ request = NoRequest
    /\ response = NoResponse
    /\ remaining_attempts = 0
    /\ attempts_made = 0
    /\ sleep_for = 0
    /\ now = 0
    /\ choice = 1
    /\ exception = None
    /\ trace = <<>>
    /\ NoTasks
    /\ NoClient

----------------------------------------------------------------------------
(* RetryTransport.__init__ *)

__init__ ==
    /\ pc = "new"
    /\ IF RaisesValueError(args)
       THEN pc' = "ValueError" /\ self' = self
       ELSE pc' = "idle" /\ self' = Fields(args)
    /\ UNCHANGED <<args, handler, request, response, remaining_attempts,
                   attempts_made, sleep_for, now, choice, exception, trace>>

----------------------------------------------------------------------------
(* RetryTransport.handle_request and handle_async_request: the two bodies  *)
(* are the same statement for statement, the second awaits the inner       *)
(* transport.                                                              *)

\* the inner transport returns a response: the id is the ordinal of the call
InnerResponse(status, headers) ==
    [id |-> Sends + 1, status_code |-> status, headers |-> headers]

\* FirstSend without lines 71-72: every method enters the loop
FirstSend_any_method(h, m, status, headers) ==
    /\ pc = "idle"
    /\ handler' = h
    /\ request' = Request(m)
    /\ trace' = trace \o <<Event("send", Sends + 1, request'),
                            Event("response", Sends + 1, status)>>
    /\ response' = InnerResponse(status, headers)
    /\ pc' = "loop"
    /\ remaining_attempts' = self.max_attempts - 1
    /\ attempts_made' = 1
    /\ UNCHANGED <<args, self, sleep_for, now, choice, exception>>

\* lines 69-75 (94-100), the inner transport returning a response
FirstSend(h, m, status, headers) ==
    /\ pc = "idle"
    /\ handler' = h
    /\ request' = Request(m)
    /\ trace' = trace \o <<Event("send", Sends + 1, request'),
                            Event("response", Sends + 1, status)>>
    /\ response' = InnerResponse(status, headers)
    /\ IF m \notin self.retryable_methods
       THEN pc' = "returned" /\ UNCHANGED <<remaining_attempts, attempts_made>>
       ELSE /\ pc' = "loop"
            /\ remaining_attempts' = self.max_attempts - 1
            /\ attempts_made' = 1
    /\ UNCHANGED <<args, self, sleep_for, now, choice, exception>>

\* line 69 (94), the inner transport raising
FirstSendRaises(h, m, e) ==
    /\ pc = "idle"
    /\ handler' = h
    /\ request' = Request(m)
    /\ trace' = trace \o <<Event("send", Sends + 1, request'),
                            Event("raise", Sends + 1, e)>>
    /\ exception' = e
    /\ pc' = "raised"
    /\ UNCHANGED <<args, self, response, remaining_attempts, attempts_made,
                   sleep_for, now, choice>>

\* LoopCheck with line 79 comparing remaining_attempts < 0
LoopCheck_one_more ==
    /\ pc = "loop"
    /\ IF remaining_attempts < 0 \/ response.status_code \notin self.retry_status_codes
       THEN pc' = "returned"
       ELSE pc' = "close"
    /\ UNCHANGED <<args, self, handler, request, response, remaining_attempts,
                   attempts_made, sleep_for, now, choice, exception, trace>>

\* LoopCheck with line 79 looking at remaining_attempts only
LoopCheck_any_status ==
    /\ pc = "loop"
    /\ IF remaining_attempts < 1
       THEN pc' = "returned"
       ELSE pc' = "close"
    /\ UNCHANGED <<args, self, handler, request, response, remaining_attempts,
                   attempts_made, sleep_for, now, choice, exception, trace>>

\* lines 79-80 (104-105)
LoopCheck ==
    /\ pc = "loop"
    /\ IF remaining_attempts < 1 \/ response.status_code \notin self.retry_status_codes
       THEN pc' = "returned"
       ELSE pc' = "close"
    /\ UNCHANGED <<args, self, handler, request, response, remaining_attempts,
                   attempts_made, sleep_for, now, choice, exception, trace>>

\* Close without line 82: the response is dropped open
Close_skipped ==
    /\ pc = "close"
    /\ pc' = "calc"
    /\ UNCHANGED <<args, self, handler, request, response, remaining_attempts,
                   attempts_made, sleep_for, now, choice, exception, trace>>

\* line 82 (107)
Close ==
    /\ pc = "close"
    /\ trace' = Append(trace, Event("close", response.id, 0))
    /\ pc' = "calc"
    /\ UNCHANGED <<args, self, handler, request, response, remaining_attempts,
                   attempts_made, sleep_for, now, choice, exception>>

\* line 84 (109): sleep_for = self._calculate_sleep(attempts_made, response.headers),
\* random.choice returning sign if it is called
CalculateSleep(sign) ==
    /\ sleep_for' = _calculate_sleep(self, attempts_made, response.headers, now, sign)
    /\ choice' = IF CallsRandom(self, response.headers, now) THEN sign ELSE choice

\* whole seconds that pass during time.sleep(d)
Elapsed(d) == (d + 999) \div 1000

\* lines 84-85 (109-110): _calculate_sleep raises the ValueError of float(),
\* or returns and time.sleep raises ValueError for a negative duration
Sleep(sign) ==
    /\ pc = "calc"
    /\ IF CalculateSleepRaises(self, response.headers)
       THEN /\ pc' = "raised"
            /\ exception' = "ValueError"
            /\ UNCHANGED <<sleep_for, choice, now, trace>>
       ELSE /\ CalculateSleep(sign)
            /\ trace' = Append(trace, Event("sleep", response.id, sleep_for'))
            /\ IF sleep_for' < 0
               THEN pc' = "raised" /\ exception' = "ValueError" /\ now' = now
               ELSE /\ pc' = "resend"
                    /\ exception' = exception
                    /\ now' = now + Elapsed(sleep_for')
    /\ UNCHANGED <<args, self, handler, request, response, remaining_attempts,
                   attempts_made>>

\* Resend without line 89: attempts_made stays at 1
Resend_attempts_not_counted(status, headers) ==
    /\ pc = "resend"
    /\ trace' = trace \o <<Event("send", Sends + 1, request),
                            Event("response", Sends + 1, status)>>
    /\ response' = InnerResponse(status, headers)
    /\ attempts_made' = attempts_made
    /\ remaining_attempts' = remaining_attempts - 1
    /\ pc' = "loop"
    /\ UNCHANGED <<args, self, handler, request, sleep_for, now, choice, exception>>

\* Resend with the request marked as a retry before it is sent again
Resend_marked(status, headers) ==
    /\ pc = "resend"
    /\ request' = [request EXCEPT !.headers = @ \cup {<<"X-Retry-Attempt", "1">>}]
    /\ trace' = trace \o <<Event("send", Sends + 1, request'),
                            Event("response", Sends + 1, status)>>
    /\ response' = InnerResponse(status, headers)
    /\ attempts_made' = attempts_made + 1
    /\ remaining_attempts' = remaining_attempts - 1
    /\ pc' = "loop"
    /\ UNCHANGED <<args, self, handler, sleep_for, now, choice, exception>>

\* lines 87-90 (112-115), the inner transport returning a response
Resend(status, headers) ==
    /\ pc = "resend"
    /\ trace' = trace \o <<Event("send", Sends + 1, request),
                            Event("response", Sends + 1, status)>>
    /\ response' = InnerResponse(status, headers)
    /\ attempts_made' = attempts_made + 1
    /\ remaining_attempts' = remaining_attempts - 1
    /\ pc' = "loop"
    /\ UNCHANGED <<args, self, handler, request, sleep_for, now, choice, exception>>

\* ResendRaises with the exception caught and the send tried again while
\* attempts remain
ResendRaises_caught(e) ==
    /\ pc = "resend"
    /\ trace' = trace \o <<Event("send", Sends + 1, request),
                            Event("raise", Sends + 1, e)>>
    /\ IF remaining_attempts > 1
       THEN pc' = "resend" /\ exception' = exception
       ELSE pc' = "raised" /\ exception' = e
    /\ remaining_attempts' = remaining_attempts - 1
    /\ UNCHANGED <<args, self, handler, request, response, attempts_made,
                   sleep_for, now, choice>>

\* line 87 (112), the inner transport raising
ResendRaises(e) ==
    /\ pc = "resend"
    /\ trace' = trace \o <<Event("send", Sends + 1, request),
                            Event("raise", Sends + 1, e)>>
    /\ exception' = e
    /\ pc' = "raised"
    /\ UNCHANGED <<args, self, handler, request, response, remaining_attempts,
                   attempts_made, sleep_for, now, choice>>

Next ==
    \/ __init__ /\ UNCHANGED <<async_vars, client_vars>>
    \/ /\ \E h \in Handlers, m \in Methods, st \in Statuses, hd \in LoopHeaders :
             FirstSend(h, m, st, hd)
       /\ UNCHANGED <<async_vars, client_vars>>
    \/ /\ \E h \in Handlers, m \in Methods, e \in TransportErrors :
             FirstSendRaises(h, m, e)
       /\ UNCHANGED <<async_vars, client_vars>>
    \/ LoopCheck /\ UNCHANGED <<async_vars, client_vars>>
    \/ Close /\ UNCHANGED <<async_vars, client_vars>>
    \/ (\E sign \in {1, -1} : Sleep(sign)) /\ UNCHANGED <<async_vars, client_vars>>
    \/ (\E st \in Statuses, hd \in LoopHeaders : Resend(st, hd))
       /\ UNCHANGED <<async_vars, client_vars>>
    \/ (\E e \in TransportErrors : ResendRaises(e))
       /\ UNCHANGED <<async_vars, client_vars>>

\* one logical request through a transport constructed with LoopArgs
Spec == Init /\ [][Next]_vars

\* the same, with every statement that can run running: the constructor and
\* the handler are straight-line code and a loop on one thread, the inner
\* transport answers or raises, and time.sleep returns or raises
FairSpec == Init /\ [][Next]_vars /\ WF_vars(Next)

----------------------------------------------------------------------------
(* _calculate_sleep on its own: the handler stands at line 84 (109) with   *)
(* any attempts_made and any headers                                       *)

SleepInit ==
    /\ pc = "calc"
    /\ args \in SleepArgs
    /\ self = Fields(args)
    /\ handler \in Handlers
    /\ request = Request("GET")
    /\ attempts_made \in 1..MaxAttempts
    /\ remaining_attempts = self.max_attempts - attempts_made
    /\ \E hd \in AllHeaders :
          response = [id |-> attempts_made, status_code |-> 429, headers |-> hd]
    /\ sleep_for = 0
    /\ now \in NowValues
    /\ choice = 1
    /\ exception = None
    /\ trace = <<>>
    /\ NoTasks
    /\ NoClient

\* line 84 (109) alone
SleepCall(sign) ==
    /\ pc = "calc"
    /\ IF CalculateSleepRaises(self, response.headers)
       THEN pc' = "raised" /\ exception' = "ValueError" /\ UNCHANGED <<sleep_for, choice>>
       ELSE pc' = "calculated" /\ exception' = exception /\ CalculateSleep(sign)
    /\ UNCHANGED <<args, self, handler, request, response, remaining_attempts,
                   attempts_made, now, trace>>

SleepNext == (\E sign \in {1, -1} : SleepCall(sign)) /\ UNCHANGED <<async_vars, client_vars>>

SleepSpec == SleepInit /\ [][SleepNext]_vars

----------------------------------------------------------------------------
(* Construction on its own: __init__ with any jitter_ratio, then the first *)
(* send of a request through the transport if there is one                 *)

ConstructInit ==
    /\ pc = "new"
    /\ args \in ConstructArgs
    /\ self = Unassigned
    /\ handler = None
    /\ request = NoRequest
    /\ response = NoResponse
    /\ remaining_attempts = 0
    /\ attempts_made = 0
    /\ sleep_for = 0
    /\ now = 0
    /\ choice = 1
    /\ exception = None
    /\ trace = <<>>
    /\ NoTasks
    /\ NoClient

ConstructNext ==
    \/ __init__ /\ UNCHANGED <<async_vars, client_vars>>
    \/ /\ \E h \in Handlers, m \in {"GET", "POST"} : FirstSend(h, m, 200, NoHeaders)
       /\ UNCHANGED <<async_vars, client_vars>>
    \/ (\E h \in Handlers : FirstSendRaises(h, "GET", "ConnectError"))
         /\ UNCHANGED <<async_vars, client_vars>>

ConstructSpec == ConstructInit /\ [][ConstructNext]_vars

----------------------------------------------------------------------------
(* RetryTransport.handle_async_request, lines 92-115, run by asyncio tasks *)
(* on one event loop.  A task runs on the loop's thread from the point it  *)
(* is resumed to its next await; the awaits are those of lines 94 and 112. *)
(* Line 110 calls time.sleep (imported at line 3), which is no await: the  *)
(* task keeps the thread for the whole wait.  A cancellation is delivered  *)
(* to a task as CancelledError at an await.                                *)

TaskSends(t) == Count(tasks[t].trace, "send")

TaskResponse(t, status, headers) ==
    [id |-> TaskSends(t), status_code |-> status, headers |-> headers]

\* line 94 up to the await: the inner transport is called and the task
\* leaves the thread
AsyncFirstCall(t, m) ==
    /\ tasks[t].pc = "idle"
    /\ running = 0
    /\ tasks' = [tasks EXCEPT ![t] =
                    [@ EXCEPT !.pc = "await_first",
                              !.request = Request(m),
                              !.trace = Append(@, Event("send", 1, Request(m)))]]
    /\ running' = 0

\* lines 94-100: the await of line 94 ends with a response
AsyncFirstResponse(t, status, headers) ==
    /\ tasks[t].pc = "await_first"
    /\ ~tasks[t].cancelled
    /\ running = 0
    /\ LET retryable == tasks[t].request.method \in self.retryable_methods
       IN  /\ tasks' = [tasks EXCEPT ![t] =
                    [@ EXCEPT !.pc = IF retryable THEN "loop" ELSE "returned",
                              !.response = TaskResponse(t, status, headers),
                              !.remaining_attempts =
                                  IF retryable THEN self.max_attempts - 1 ELSE @,
                              !.attempts_made = IF retryable THEN 1 ELSE @,
                              !.trace = Append(@, Event("response", TaskSends(t), status))]]
           /\ running' = IF retryable THEN t ELSE 0

\* line 94: the await ends with the inner transport's exception
AsyncFirstRaises(t, e) ==
    /\ tasks[t].pc = "await_first"
    /\ ~tasks[t].cancelled
    /\ running = 0
    /\ tasks' = [tasks EXCEPT ![t] =
                    [@ EXCEPT !.pc = "raised",
                              !.exception = e,
                              !.trace = Append(@, Event("raise", TaskSends(t), e))]]
    /\ running' = 0

\* lines 104-105
AsyncLoopCheck(t) ==
    /\ tasks[t].pc = "loop"
    /\ running = t
    /\ LET return == \/ tasks[t].remaining_attempts < 1
                      \/ tasks[t].response.status_code \notin self.retry_status_codes
       IN  /\ tasks' = [tasks EXCEPT ![t].pc = IF return THEN "returned" ELSE "close"]
           /\ running' = IF return THEN 0 ELSE t

\* AsyncClose without line 107
AsyncClose_skipped(t) ==
    /\ tasks[t].pc = "close"
    /\ running = t
    /\ tasks' = [tasks EXCEPT ![t].pc = "calc"]
    /\ running' = t

\* line 107
AsyncClose(t) ==
    /\ tasks[t].pc = "close"
    /\ running = t
    /\ tasks' = [tasks EXCEPT ![t] =
                    [@ EXCEPT !.pc = "calc",
                              !.trace = Append(@, Event("close", tasks[t].response.id, 0))]]
    /\ running' = t

\* lines 109-110, up to the call of time.sleep: _calculate_sleep raises the
\* ValueError of float(), or returns and time.sleep raises ValueError for a
\* negative duration, or time.sleep starts and the task stays on the thread
AsyncSleepBegin(t, clock, sign) ==
    /\ tasks[t].pc = "calc"
    /\ running = t
    /\ IF CalculateSleepRaises(self, tasks[t].response.headers)
       THEN /\ tasks' = [tasks EXCEPT ![t] =
                            [@ EXCEPT !.pc = "raised", !.exception = "ValueError"]]
            /\ running' = 0
       ELSE LET d == _calculate_sleep(self, tasks[t].attempts_made,
                                      tasks[t].response.headers, clock, sign)
            IN  /\ tasks' = [tasks EXCEPT ![t] =
                            [@ EXCEPT !.pc = IF d < 0 THEN "raised" ELSE "sleeping",
                                      !.exception = IF d < 0 THEN "ValueError" ELSE @,
                                      !.sleep_for = d,
                                      !.trace = Append(@, Event("sleep",
                                                    tasks[t].response.id, d))]]
                /\ running' = IF d < 0 THEN 0 ELSE t

\* line 110: time.sleep returns
AsyncSleepEnd(t) ==
    /\ tasks[t].pc = "sleeping"
    /\ running = t
    /\ tasks' = [tasks EXCEPT ![t].pc = "resend"]
    /\ running' = t

\* line 112 up to the await: the inner transport is called again and the
\* task leaves the thread
AsyncResendCall(t) ==
    /\ tasks[t].pc = "resend"
    /\ running = t
    /\ tasks' = [tasks EXCEPT ![t] =
                    [@ EXCEPT !.pc = "await_resend",
                              !.trace = Append(@, Event("send", TaskSends(t) + 1,
                                                         tasks[t].request))]]
    /\ running' = 0

\* AsyncResendResponse with the attempt counters kept on the transport, one
\* pair for all its requests
AsyncResendResponse_shared_counters(t, status, headers) ==
    /\ tasks[t].pc = "await_resend"
    /\ ~tasks[t].cancelled
    /\ running = 0
    /\ tasks' = [u \in Tasks |->
                    IF u = t
                    THEN [tasks[u] EXCEPT
                              !.pc = "loop",
                              !.response = TaskResponse(t, status, headers),
                              !.attempts_made = @ + 1,
                              !.remaining_attempts = @ - 1,
                              !.trace = Append(@, Event("response", TaskSends(t), status))]
                    ELSE [tasks[u] EXCEPT
                              !.attempts_made = @ + 1,
                              !.remaining_attempts = @ - 1]]
    /\ running' = t

\* lines 112-115: the await of line 112 ends with a response
AsyncResendResponse(t, status, headers) ==
    /\ tasks[t].pc = "await_resend"
    /\ ~tasks[t].cancelled
    /\ running = 0
    /\ tasks' = [tasks EXCEPT ![t] =
                    [@ EXCEPT !.pc = "loop",
                              !.response = TaskResponse(t, status, headers),
                              !.attempts_made = @ + 1,
                              !.remaining_attempts = @ - 1,
                              !.trace = Append(@, Event("response", TaskSends(t), status))]]
    /\ running' = t

\* line 112: the await ends with the inner transport's exception
AsyncResendRaises(t, e) ==
    /\ tasks[t].pc = "await_resend"
    /\ ~tasks[t].cancelled
    /\ running = 0
    /\ tasks' = [tasks EXCEPT ![t] =
                    [@ EXCEPT !.pc = "raised",
                              !.exception = e,
                              !.trace = Append(@, Event("raise", TaskSends(t), e))]]
    /\ running' = 0

\* Task.cancel() is requested for a task that is waiting, for the inner
\* transport or in time.sleep (by a timeout or from another thread)
CancelRequest(t) ==
    /\ tasks[t].pc \in {"await_first", "sleeping", "await_resend"}
    /\ ~tasks[t].cancelled
    /\ tasks' = [tasks EXCEPT ![t] =
                    [@ EXCEPT !.cancelled = TRUE,
                              !.trace = Append(@, Event("cancel", TaskSends(t), 0))]]
    /\ running' = running

\* the event loop throws CancelledError into the task at the await it is
\* suspended at (line 94 or 112), and the error leaves the handler
AsyncCancelled(t) ==
    /\ tasks[t].pc \in {"await_first", "await_resend"}
    /\ tasks[t].cancelled
    /\ running = 0
    /\ tasks' = [tasks EXCEPT ![t] =
                    [@ EXCEPT !.pc = "cancelled",
                              !.exception = "CancelledError",
                              !.trace = Append(@, Event("raise", TaskSends(t),
                                                         "CancelledError"))]]
    /\ running' = 0

\* a constructed transport shared by the tasks of one event loop
AsyncInit ==
    /\ pc = "idle"
    /\ args \in AsyncArgs
    /\ self = Fields(args)
    /\ handler = None
    /\ request = NoRequest
    /\ response = NoResponse
    /\ remaining_attempts = 0
    /\ attempts_made = 0
    /\ sleep_for = 0
    /\ now = 0
    /\ choice = 1
    /\ exception = None
    /\ trace = <<>>
    /\ NoTasks
    /\ NoClient

\* the steps of the tasks leave the synchronous handler's state alone; time
\* passes while a task sleeps
AsyncNext ==
    \/ /\ \E t \in Tasks, m \in {"GET", "POST"} : AsyncFirstCall(t, m)
       /\ UNCHANGED <<loop_vars, now, inputs, client_vars>>
    \/ /\ \E t \in Tasks, st \in {200, 429}, hd \in {NoHeaders, RetryAfter(str(5))} :
             AsyncFirstResponse(t, st, hd)
       /\ UNCHANGED <<loop_vars, now, inputs, client_vars>>
    \/ /\ \E t \in Tasks : AsyncFirstRaises(t, "ConnectError")
       /\ UNCHANGED <<loop_vars, now, inputs, client_vars>>
    \/ /\ \E t \in Tasks : AsyncLoopCheck(t)
       /\ UNCHANGED <<loop_vars, now, inputs, client_vars>>
    \/ /\ \E t \in Tasks : AsyncClose(t)
       /\ UNCHANGED <<loop_vars, now, inputs, client_vars>>
    \/ /\ \E t \in Tasks, sign \in {1, -1} : AsyncSleepBegin(t, now, sign)
       /\ UNCHANGED <<loop_vars, now, inputs, client_vars>>
    \/ /\ \E t \in Tasks : AsyncSleepEnd(t) /\ now' = now + Elapsed(tasks[t].sleep_for)
       /\ UNCHANGED <<loop_vars, inputs, client_vars>>
    \/ /\ \E t \in Tasks : AsyncResendCall(t)
       /\ UNCHANGED <<loop_vars, now, inputs, client_vars>>
    \/ /\ \E t \in Tasks, st \in {200, 429}, hd \in {NoHeaders, RetryAfter(str(5))} :
             AsyncResendResponse(t, st, hd)
       /\ UNCHANGED <<loop_vars, now, inputs, client_vars>>
    \/ /\ \E t \in Tasks : AsyncResendRaises(t, "ConnectError")
       /\ UNCHANGED <<loop_vars, now, inputs, client_vars>>
    \/ /\ \E t \in Tasks : CancelRequest(t)
       /\ UNCHANGED <<loop_vars, now, inputs, client_vars>>
    \/ /\ \E t \in Tasks : AsyncCancelled(t)
       /\ UNCHANGED <<loop_vars, now, inputs, client_vars>>

AsyncSpec == AsyncInit /\ [][AsyncNext]_vars

----------------------------------------------------------------------------
(* handle_request and handle_async_request side by side: handle_request    *)
(* runs first and what it was given is written down (the responses and     *)
(* exceptions of the inner transport, the results of random.choice, the    *)
(* readings of the clock); then task 1 runs handle_async_request on the    *)
(* same transport with the same request and is given the same.             *)

ResponseInput(status, headers) ==
    [kind |-> "response", status |-> status, headers |-> headers,
     exception |-> None, sign |-> 0, clock |-> 0]

RaiseInput(e) ==
    [kind |-> "raise", status |-> 0, headers |-> NoHeaders,
     exception |-> e, sign |-> 0, clock |-> 0]

SleepInput(sign, clock) ==
    [kind |-> "sleep", status |-> 0, headers |-> NoHeaders,
     exception |-> None, sign |-> sign, clock |-> clock]

\* handle_request has returned or raised
SyncDone == pc \in {"returned", "raised"}

\* the number of inputs the task has taken
Consumed(t) ==
    Count(tasks[t].trace, "response") + Count(tasks[t].trace, "raise")
      + Count(tasks[t].trace, "sleep")

\* the task's next input is of this kind
NextInput(t, kind) ==
    /\ SyncDone
    /\ Consumed(t) < Len(inputs)
    /\ inputs[Consumed(t) + 1].kind = kind

PairInit ==
    /\ pc = "new"
    /\ args \in PairArgs
    /\ self = Unassigned
    /\ handler = None
    /\ request = NoRequest
    /\ response = NoResponse
    /\ remaining_attempts = 0
    /\ attempts_made = 0
    /\ sleep_for = 0
    /\ now = 0
    /\ choice = 1
    /\ exception = None
    /\ trace = <<>>
    /\ NoTasks
    /\ NoClient

PairNext ==
    \/ __init__ /\ UNCHANGED <<async_vars, client_vars>>
    \/ \E m \in {"GET", "POST"}, st \in {200, 429}, hd \in LoopHeaders :
          /\ FirstSend("handle_request", m, st, hd)
          /\ inputs' = Append(inputs, ResponseInput(st, hd))
          /\ UNCHANGED <<tasks, running, client_vars>>
    \/ \E m \in {"GET", "POST"}, e \in TransportErrors :
          /\ FirstSendRaises("handle_request", m, e)
          /\ inputs' = Append(inputs, RaiseInput(e))
          /\ UNCHANGED <<tasks, running, client_vars>>
    \/ LoopCheck /\ UNCHANGED <<async_vars, client_vars>>
    \/ Close /\ UNCHANGED <<async_vars, client_vars>>
    \/ \E sign \in {1, -1} :
          /\ Sleep(sign)
          /\ inputs' = Append(inputs, SleepInput(sign, now))
          /\ UNCHANGED <<tasks, running, client_vars>>
    \/ \E st \in {200, 429}, hd \in LoopHeaders :
          /\ Resend(st, hd)
          /\ inputs' = Append(inputs, ResponseInput(st, hd))
          /\ UNCHANGED <<tasks, running, client_vars>>
    \/ \E e \in TransportErrors :
          /\ ResendRaises(e)
          /\ inputs' = Append(inputs, RaiseInput(e))
          /\ UNCHANGED <<tasks, running, client_vars>>
    \/ /\ SyncDone
       /\ AsyncFirstCall(1, request.method)
       /\ UNCHANGED <<loop_vars, now, inputs, client_vars>>
    \/ /\ NextInput(1, "response")
       /\ AsyncFirstResponse(1, inputs[Consumed(1) + 1].status,
                              inputs[Consumed(1) + 1].headers)
       /\ UNCHANGED <<loop_vars, now, inputs, client_vars>>
    \/ /\ NextInput(1, "raise")
       /\ AsyncFirstRaises(1, inputs[Consumed(1) + 1].exception)
       /\ UNCHANGED <<loop_vars, now, inputs, client_vars>>
    \/ AsyncLoopCheck(1) /\ UNCHANGED <<loop_vars, now, inputs, client_vars>>
    \/ AsyncClose(1) /\ UNCHANGED <<loop_vars, now, inputs, client_vars>>
    \/ /\ NextInput(1, "sleep")
       /\ AsyncSleepBegin(1, inputs[Consumed(1) + 1].clock, inputs[Consumed(1) + 1].sign)
       /\ UNCHANGED <<loop_vars, now, inputs, client_vars>>
    \/ AsyncSleepEnd(1) /\ UNCHANGED <<loop_vars, now, inputs, client_vars>>
    \/ AsyncResendCall(1) /\ UNCHANGED <<loop_vars, now, inputs, client_vars>>
    \/ /\ NextInput(1, "response")
       /\ AsyncResendResponse(1, inputs[Consumed(1) + 1].status,
                               inputs[Consumed(1) + 1].headers)
       /\ UNCHANGED <<loop_vars, now, inputs, client_vars>>
    \/ /\ NextInput(1, "raise")
       /\ AsyncResendRaises(1, inputs[Consumed(1) + 1].exception)
       /\ UNCHANGED <<loop_vars, now, inputs, client_vars>>

PairSpec == PairInit /\ [][PairNext]_vars

----------------------------------------------------------------------------
(* HttpClient (http.py) and AsyncHttpClient (async_client.py): the          *)
(* constructor and _request_raw, which prepares the session, the headers    *)
(* and the params of a request and hands the request to the session.  A     *)
(* dict is the set of its <<key, value>> pairs.  What requests and httpx do *)
(* with a request they are handed is outside the model; the headers of the  *)
(* request are those of its session, since _request_raw pops the headers    *)
(* keyword and passes none.                                                 *)

\* d.update(e), and {**d, **e}: the pairs of e, and those of d whose key e lacks
update(d, e) == {p \in d : \A q \in e : q[1] # p[1]} \cup e

Keys(d) == {p[1] : p \in d}

Classes == {"HttpClient", "AsyncHttpClient"}

\* the constructor calls of the client specification
ClientArgs ==
    [max_retries : {0, 2},
     auth : {None, "credentials"},
     auth_header : {NoneArg, Arg({<<"Authorization", "token">>})},
     default_http_header : {NoneArg, Arg({<<"Accept", "json">>})},
     default_params : {NoneArg, Arg({}), Arg({<<"a", "default">>})}]

\* the headers argument of a call
CallHeaders == {NoneArg, Arg({<<"X-Call", "own">>})}

\* the params argument of a call: none, a key the defaults have, another key
CallParams == {NoneArg, Arg({<<"a", "own">>}), Arg({<<"b", "own">>})}

\* the error statuses a server answers every request with
ErrorStatuses == {404, 500}

\* __init__, http.py lines 74-81 and async_client.py lines 76-85
ClientFields(cls, a) ==
    [class |-> cls,
     max_retries |-> a.max_retries,
     _auth |-> a.auth,
     _auth_header |-> IF Truthy(a.auth_header) THEN a.auth_header.items ELSE {},
     _default_header |->
        IF Truthy(a.default_http_header) THEN a.default_http_header.items ELSE {},
     _default_params |-> a.default_params,
     session |-> NoSession]

\* requests.Session() and httpx.AsyncClient() as constructed, their own
\* default headers left out
NewSession == [open |-> TRUE, headers |-> {}, auth |-> None]

\* _request_raw, http.py lines 143-152 and async_client.py lines 148-157: the
\* local `headers`
PreparedHeaders(c, hdrs, ignore_auth) ==
    LET own == IF hdrs.given THEN hdrs.items ELSE {}
        with_default == update(own, c._default_header)
    IN  IF ignore_auth THEN with_default ELSE update(with_default, c._auth_header)

\* _request_raw, http.py lines 151-156 and async_client.py lines 156-161: the
\* session s after the updates
PreparedSession(s, c, hdrs, ignore_auth) ==
    LET headers == PreparedHeaders(c, hdrs, ignore_auth)
    IN  [open |-> TRUE,
         headers |-> update(IF ignore_auth THEN s.headers ELSE update(s.headers, headers),
                            headers),
         auth |-> IF ignore_auth THEN s.auth ELSE c._auth]

\* _request_raw, http.py lines 159-169 and async_client.py lines 164-174: the
\* params keyword handed to the session's request
PreparedParams(c, params) ==
    LET own == IF params.given THEN params.items ELSE {}
    IN  IF c._default_params.given THEN update(own, c._default_params.items) ELSE own

\* the parameters of RetryTransport.__init__ that have no default
\* (retry_wrapper.py lines 23-34)
RequiredParameters == {"wrapped_transport"}

\* the keywords async_client.py lines 88-89 call RetryTransport with
RetryTransportKeywords == {"max_attempts", "max_backoff_wait"}

\* a call that leaves a required parameter unbound raises TypeError
RaisesTypeError(keywords) == RequiredParameters \ keywords # {}

\* HttpClient._request_raw, http.py lines 136-172: a new session for each call
HttpClient_request_raw(method, hdrs, params, ignore_auth) ==
    /\ client.class = "HttpClient"
    /\ Len(calls) < MaxCalls
    /\ calls' = Append(calls,
          [class |-> client.class, method |-> method, headers |-> hdrs,
           params |-> params, ignore_auth |-> ignore_auth, status |-> None,
           session |-> PreparedSession(NewSession, client, hdrs, ignore_auth),
           kwargs_params |-> PreparedParams(client, params),
           exception |-> None, request_calls |-> 1, result |-> "response"])
    /\ UNCHANGED client

\* AsyncHttpClient._request_raw, async_client.py lines 141-177, with
\* _requests_retry_session, lines 87-91: the client keeps its session from call
\* to call; line 88 constructs the RetryTransport before line 90 looks at the
\* session, and line 176 calls request on what _requests_retry_session returns.
\* `status` is the status the server answers every request with.
AsyncHttpClient_request_raw(method, hdrs, params, ignore_auth, status) ==
    /\ client.class = "AsyncHttpClient"
    /\ Len(calls) < MaxCalls
    /\ LET s == PreparedSession(IF client.session.open THEN client.session
                                ELSE NewSession,
                                client, hdrs, ignore_auth)
           raises == RaisesTypeError(RetryTransportKeywords)
       IN  /\ client' = [client EXCEPT !.session = s]
           /\ calls' = Append(calls,
                 [class |-> client.class, method |-> method, headers |-> hdrs,
                  params |-> params, ignore_auth |-> ignore_auth, status |-> status,
                  session |-> s,
                  kwargs_params |-> PreparedParams(client, params),
                  exception |-> IF raises THEN "TypeError" ELSE None,
                  request_calls |-> IF raises THEN 0 ELSE 1,
                  result |-> IF raises THEN None ELSE "response"])

\* the transport a client would construct, before its construction
ClientInit ==
    /\ pc = "new"
    /\ \E cls \in Classes, a \in ClientArgs :
          /\ client = ClientFields(cls, a)
          /\ args = [max_attempts |-> a.max_retries,
                     max_backoff_wait |-> 30 * 1000,
                     backoff_factor |-> 100,
                     jitter_ratio |-> 10,
                     respect_retry_after_header |-> TRUE,
                     retryable_methods |-> NoneArg,
                     retry_status_codes |-> NoneArg]
    /\ calls = <<>>
    /\ self = Unassigned
    /\ handler = None
    /\ request = NoRequest
    /\ response = NoResponse
    /\ remaining_attempts = 0
    /\ attempts_made = 0
    /\ sleep_for = 0
    /\ now = 0
    /\ choice = 1
    /\ exception = None
    /\ trace = <<>>
    /\ NoTasks

ClientNext ==
    \/ (\E m \in {"POST"}, hdrs \in CallHeaders, params \in CallParams,
          ignore_auth \in BOOLEAN :
          HttpClient_request_raw(m, hdrs, params, ignore_auth))
       /\ UNCHANGED <<loop_vars, now, async_vars>>
    \/ (\E hdrs \in CallHeaders, params \in CallParams, ignore_auth \in BOOLEAN,
          status \in ErrorStatuses :
          AsyncHttpClient_request_raw("GET", hdrs, params, ignore_auth, status))
       /\ UNCHANGED <<loop_vars, now, async_vars>>

ClientSpec == ClientInit /\ [][ClientNext]_vars

----------------------------------------------------------------------------
(* Properties of the retry loop, under Spec *)

Max(a, b) == IF a >= b THEN a ELSE b

\* a handler has been entered
Started == pc \in {"loop", "close", "calc", "resend", "returned", "raised"}

\* the inner transport returned a response to its id-th call
Received(id) == \E i \in 1..Len(trace) : trace[i].op = "response" /\ trace[i].id = id

\* the status of that response
StatusOf(id) ==
    trace[CHOOSE i \in 1..Len(trace) : trace[i].op = "response" /\ trace[i].id = id].arg

\* every response so far carried a retryable status
AllRetryable ==
    \A i \in 1..Len(trace) :
        trace[i].op = "response" => trace[i].arg \in self.retry_status_codes

RetryableMethod == request.method \in self.retryable_methods

\* C1, as stated: one call of handle_request or handle_async_request invokes
\* the inner transport at most max_attempts times, for every retry policy.
C1_SendsAtMostMaxAttempts == Started => Sends <= self.max_attempts

\* C1, amended: one call of handle_request or handle_async_request invokes the
\* inner transport at most max(max_attempts, 1) times: the first send does
\* not depend on max_attempts.
C1_SendsAtMostMaxAttemptsOrOne == Started => Sends <= Max(self.max_attempts, 1)

C1_Witness ==
    /\ pc = "returned"
    /\ handler = "handle_async_request"
    /\ self.max_attempts = MaxAttempts
    /\ Sends = self.max_attempts
    /\ response.status_code \in self.retry_status_codes

\* C2: when the request method is not in retryable_methods, the request is
\* sent exactly once and the first response is what is returned, whatever
\* its status and whatever max_attempts; nothing is closed and nothing slept.
C2_NonRetryableMethodSentOnce ==
    (Started /\ ~RetryableMethod) =>
        /\ Sends = 1
        /\ Count(trace, "close") = 0
        /\ Count(trace, "sleep") = 0
        /\ pc \in {"returned", "raised"}
        /\ pc = "returned" =>
              /\ response.id = 1
              /\ response.status_code = StatusOf(1)

C2_Witness ==
    /\ pc = "returned"
    /\ request.method = "POST"
    /\ ~RetryableMethod
    /\ response.status_code \in self.retry_status_codes
    /\ self.max_attempts = MaxAttempts
    /\ Sends = 1

\* C3: when the method is retryable and the first response's status is not
\* in retry_status_codes, exactly one send occurs and that response is
\* returned without having been closed.
C3_NonRetryableStatusSentOnce ==
    (Started /\ RetryableMethod /\ Received(1)
       /\ StatusOf(1) \notin self.retry_status_codes) =>
        /\ Sends = 1
        /\ response.id = 1
        /\ Closes(1) = 0
        /\ Count(trace, "sleep") = 0
        /\ pc \in {"loop", "returned"}

C3_Witness ==
    /\ pc = "returned"
    /\ RetryableMethod
    /\ StatusOf(1) = 500
    /\ StatusOf(1) \notin self.retry_status_codes
    /\ self.max_attempts = MaxAttempts
    /\ Closes(1) = 0

C5_Scenario ==
    /\ Started
    /\ self.max_attempts = 3
    /\ self.retryable_methods = RETRYABLE_METHODS
    /\ self.retry_status_codes = RETRYABLE_STATUS_CODES
    /\ request.method = "POST"
    /\ Received(1) /\ StatusOf(1) = 429
    /\ Received(2) => StatusOf(2) = 200

\* C5, as stated: in that scenario there are 2 sends, the 200 is returned and
\* the backoff is computed once.
C5_PostRetriedOnce ==
    (C5_Scenario /\ pc = "returned") =>
        /\ Sends = 2
        /\ response.status_code = 200
        /\ Count(trace, "sleep") = 1

\* C5, amended: in that scenario there is 1 send, the 429 is returned and the
\* backoff is never computed, POST not being in the default method set.
C5_PostNotRetried ==
    C5_Scenario =>
        /\ pc = "returned"
        /\ Sends = 1
        /\ response.id = 1
        /\ response.status_code = 429
        /\ Count(trace, "sleep") = 0

C5_Witness ==
    /\ C5_Scenario
    /\ pc = "returned"
    /\ response.status_code = 429

\* C6: every response discarded for a retry is closed exactly once, and
\* closed before the next send: at every send, each earlier response of the
\* request has been closed, and no response is ever closed twice.
C6_ClosedOnceBeforeNextSend ==
    /\ \A id \in 1..Sends : Closes(id) <= 1
    /\ \A i \in 1..Len(trace) :
          trace[i].op = "send" =>
             \A id \in 1..(trace[i].id - 1) :
                \E j \in 1..(i - 1) : trace[j].op = "close" /\ trace[j].id = id

C6_Witness ==
    /\ Sends = MaxAttempts
    /\ \A id \in 1..(MaxAttempts - 1) : Closes(id) = 1
    /\ Closes(MaxAttempts) = 0
    /\ pc = "returned"

\* C7: an exception of the inner transport, on the first send or a resend,
\* is what leaves the handler, at once: nothing is sent, closed or slept
\* after it, even when attempts remain.
C7_InnerExceptionPropagates ==
    \A i \in 1..Len(trace) :
        trace[i].op = "raise" =>
            /\ i = Len(trace)
            /\ pc = "raised"
            /\ exception = trace[i].arg

C7_Witness ==
    /\ pc = "raised"
    /\ exception = "ReadTimeout"
    /\ Sends = 2
    /\ remaining_attempts >= 2
    /\ response.status_code \in self.retry_status_codes

----------------------------------------------------------------------------
(* Properties of _calculate_sleep, under SleepSpec *)

Calculated == pc = "calculated"

\* the Retry-After value as the server sent it
SentHint == Get(response.headers, RETRY_AFTER)

\* C8: with respect_retry_after_header, a Retry-After of the decimal digits
\* of n gives a wait of exactly n seconds, for every attempts_made and
\* whether or not n exceeds max_backoff_wait.
C8_IntegerHintIsTheWait ==
    (Calculated /\ self.respect_retry_after_header) =>
        \A n \in IntegerHints \cup {2030} :
            SentHint = str(n) => sleep_for = 1000 * n

C8_Witness ==
    /\ Calculated
    /\ self.respect_retry_after_header
    /\ SentHint = str(90)
    /\ self.max_backoff_wait < 90 * 1000
    /\ attempts_made = MaxAttempts
    /\ sleep_for = 90 * 1000

\* C9: with respect_retry_after_header, a Retry-After timestamp that is not
\* after now gives a wait of 0.
C9_PastTimestampWaitsZero ==
    (Calculated /\ self.respect_retry_after_header) =>
        \A t \in TimestampHints :
            (SentHint = t.text /\ t.instant <= now) => sleep_for = 0

\* C10, as stated: with respect_retry_after_header, a Retry-After that
\* isoparse accepts and that lies after now gives a wait of
\* min(timestamp - now, max_backoff_wait).
C10_FutureTimestampWait ==
    (Calculated /\ self.respect_retry_after_header) =>
        \A t \in TimestampHints \cup YearHints :
            (SentHint = t.text /\ t.instant > now) =>
                sleep_for = Min(1000 * (t.instant - now), self.max_backoff_wait)

\* C10, amended: the same for a timestamp that is not all digits; a value of
\* digits only, such as the year 2030, is taken as a number of seconds.
C10_FutureNonDigitTimestampWait ==
    (Calculated /\ self.respect_retry_after_header) =>
        \A t \in TimestampHints :
            (SentHint = t.text /\ t.instant > now) =>
                sleep_for = Min(1000 * (t.instant - now), self.max_backoff_wait)

C10_Witness ==
    /\ Calculated
    /\ self.respect_retry_after_header
    /\ SentHint = isoformat(2030, 1, 1, 0, 2, 0)
    /\ now = 0
    /\ attempts_made = MaxAttempts
    /\ self.max_backoff_wait < 120 * 1000
    /\ sleep_for = self.max_backoff_wait

----------------------------------------------------------------------------
(* Properties of the computed backoff and of the sleep, under SleepSpec and *)
(* Spec                                                                     *)

\* b = backoff_factor * 2^(a-1), in milliseconds
ExponentialBackoff(a) == self.backoff_factor * (2 ^ (a - 1))

\* min(b * (1 + sign * jitter_ratio), max_backoff_wait)
JitteredBackoff(a, sign) ==
    Min((ExponentialBackoff(a) * (100 + sign * self.jitter_ratio)) \div 100,
        self.max_backoff_wait)

\* C11: when the Retry-After header is present but is neither a non-negative
\* integer string nor a parseable timestamp, _calculate_sleep raises nothing
\* and returns the exponential backoff with jitter, as if the header were
\* absent.
C11_UnusableHintFallsBack ==
    (SentHint \in GarbageHints \cup DigitLikeHints) =>
        /\ pc # "raised"
        /\ Calculated => sleep_for = JitteredBackoff(attempts_made, choice)

\* C12: the duration the transport passes to sleep before a resend is never
\* negative, for every policy the constructor accepts and every response
\* headers value.
C12_SleepNeverNegative ==
    \A i \in 1..Len(trace) : trace[i].op = "sleep" => trace[i].arg >= 0

\* no usable retry hint: the header is not respected, absent, blank, or
\* neither a digit string nor a timestamp
NoUsableHint ==
    \/ ~self.respect_retry_after_header
    \/ response.headers = NoHeaders
    \/ SentHint \in BlankHints \cup GarbageHints

\* C13: with no usable retry hint the computed wait for attempts_made = a is
\* one of exactly two values, min(b*(1 - jitter_ratio), max_backoff_wait) or
\* min(b*(1 + jitter_ratio), max_backoff_wait) with b = backoff_factor *
\* 2^(a-1): the jitter magnitude is b*jitter_ratio, only its sign is random,
\* and the result never exceeds max_backoff_wait.
C13_TwoJitteredValues ==
    (Calculated /\ NoUsableHint) =>
        /\ sleep_for \in {JitteredBackoff(attempts_made, -1),
                          JitteredBackoff(attempts_made, 1)}
        /\ choice \in {1, -1}
        /\ sleep_for =
              Min(ExponentialBackoff(attempts_made)
                    + choice * ((ExponentialBackoff(attempts_made) * self.jitter_ratio)
                                  \div 100),
                  self.max_backoff_wait)
        /\ sleep_for <= self.max_backoff_wait

C13_Witness ==
    /\ Calculated
    /\ response.headers = NoHeaders
    /\ self.respect_retry_after_header
    /\ self.backoff_factor = 100
    /\ self.jitter_ratio = 10
    /\ attempts_made = 3
    /\ choice = -1
    /\ sleep_for = 360

----------------------------------------------------------------------------
(* Properties of construction, under ConstructSpec *)

\* C14: constructing RetryTransport with jitter_ratio < 0 or jitter_ratio >
\* 0.5 raises ValueError, the value is not clamped and no transport that
\* could send exists afterwards; 0, 0.5 and what lies between are accepted
\* and kept as given.
C14_JitterRatioValidated ==
    /\ (args.jitter_ratio < 0 \/ args.jitter_ratio > 50) =>
          /\ pc \in {"new", "ValueError"}
          /\ self = Unassigned
          /\ trace = <<>>
    /\ (args.jitter_ratio >= 0 /\ args.jitter_ratio <= 50) =>
          /\ pc # "ValueError"
          /\ pc # "new" => self.jitter_ratio = args.jitter_ratio

C14_Witness ==
    /\ pc = "ValueError"
    /\ args.jitter_ratio = 51
    /\ self = Unassigned

\* the boundary values are accepted: a transport with jitter_ratio 0.5 sends
C14_BoundaryWitness ==
    /\ pc = "returned"
    /\ args.jitter_ratio = 50
    /\ self.jitter_ratio = 50
    /\ Sends = 1

----------------------------------------------------------------------------
(* Properties of concurrent requests on one event loop, under AsyncSpec *)

\* the task t is in the backoff wait of line 110
InBackoff(t) == tasks[t].pc = "sleeping"

\* the task u sends or receives: it calls the inner transport for the first
\* time, or its await of the inner transport ends
SendOrReceive(u) ==
    \/ AsyncFirstCall(u, "GET")
    \/ AsyncFirstResponse(u, 200, NoHeaders)
    \/ AsyncResendResponse(u, 200, NoHeaders)

\* C15: on the non-blocking path, while one logical request is in its
\* backoff wait, another request of the same event loop that has a send to
\* make or a response to receive can make that step: the backoff suspends
\* only the task that is retrying.
C15_BackoffSuspendsOnlyItsTask ==
    \A t \in Tasks, u \in Tasks :
        (/\ t # u
         /\ InBackoff(t)
         /\ tasks[u].pc \in {"idle", "await_first", "await_resend"}
         /\ ~tasks[u].cancelled) =>
            ENABLED SendOrReceive(u)

\* the task t was cancelled while in a backoff wait: the i-th event of its
\* trace is that cancellation
CancelledInBackoff(t, i) ==
    /\ i > 1
    /\ tasks[t].trace[i].op = "cancel"
    /\ tasks[t].trace[i - 1].op = "sleep"

\* C16: if the task is cancelled while handle_async_request is in a backoff
\* wait, the wait is interrupted (the handler does not go on to line 112),
\* the cancellation propagates, and no further send is issued for that
\* request.
C16_CancelInterruptsBackoff ==
    \A t \in Tasks : \A i \in 1..Len(tasks[t].trace) :
        CancelledInBackoff(t, i) =>
            /\ tasks[t].pc \in {"sleeping", "cancelled"}
            /\ \A j \in (i + 1)..Len(tasks[t].trace) : tasks[t].trace[j].op # "send"

\* the status of the response to the task's id-th send
TaskStatusOf(t, id) ==
    LET tr == tasks[t].trace
    IN  tr[CHOOSE i \in 1..Len(tr) : tr[i].op = "response" /\ tr[i].id = id].arg

\* the number of responses the task has received
TaskResponses(t) == Count(tasks[t].trace, "response")

\* C18: handling requests leaves every policy field of the transport as
\* constructed, and under any interleaving of concurrent requests the
\* attempt counters and the send count of each request follow from its own
\* method and its own responses alone.
C18_PolicyAndCountersFramed ==
    /\ self = Fields(args)
    /\ \A t \in Tasks :
          LET k == TaskSends(t)
              retryable == tasks[t].request.method \in self.retryable_methods
              inloop == tasks[t].pc \in {"loop", "close", "calc", "sleeping", "resend",
                                         "await_resend"}
          IN  /\ k <= Max(self.max_attempts, 1)
              /\ k > 1 => retryable
              /\ \A i \in 1..(k - 1) :
                    TaskStatusOf(t, i) \in self.retry_status_codes
              /\ inloop =>
                    /\ tasks[t].attempts_made = TaskResponses(t)
                    /\ tasks[t].remaining_attempts = self.max_attempts - TaskResponses(t)
              /\ tasks[t].pc = "returned" =>
                    /\ tasks[t].response.id = k
                    /\ retryable =>
                          \/ k = Max(self.max_attempts, 1)
                          \/ TaskStatusOf(t, k) \notin self.retry_status_codes
                    /\ ~retryable => k = 1

\* two requests in flight at once, at different attempts
C18_Witness ==
    /\ tasks[1].pc = "await_resend"
    /\ tasks[1].attempts_made = 2
    /\ tasks[2].pc = "await_resend"
    /\ tasks[2].attempts_made = 1
    /\ self.max_attempts = MaxAttempts

----------------------------------------------------------------------------
(* handle_request against handle_async_request, under PairSpec *)

SameEvent(a, b) == a.op = b.op /\ a.id = b.id /\ a.arg = b.arg

\* C17: for the same policy, request, inner-transport responses, jitter
\* choices and clock readings, handle_async_request does what
\* handle_request did: event by event the same sends, closes and computed
\* waits in the same order, and at the end the same number of each, the
\* same returned response or the same exception.
C17_SameTrace ==
    LET a == tasks[1]
    IN  /\ \A i \in 1..Len(a.trace) :
              i <= Len(trace) /\ SameEvent(a.trace[i], trace[i])
        /\ a.pc \in {"returned", "raised"} =>
              /\ a.pc = pc
              /\ Len(a.trace) = Len(trace)
              /\ TaskSends(1) = Sends
              /\ Count(a.trace, "close") = Count(trace, "close")
              /\ Count(a.trace, "sleep") = Count(trace, "sleep")
              /\ a.response = response
              /\ a.exception = exception
              /\ a.attempts_made = attempts_made
              /\ a.remaining_attempts = remaining_attempts

C17_Witness ==
    /\ tasks[1].pc = "returned"
    /\ pc = "returned"
    /\ self.max_attempts = MaxAttempts
    /\ TaskSends(1) = MaxAttempts
    /\ Count(tasks[1].trace, "close") = MaxAttempts - 1
    /\ Count(tasks[1].trace, "sleep") = MaxAttempts - 1
    /\ tasks[1].sleep_for > 0
    /\ choice = -1

----------------------------------------------------------------------------
(* Properties of the request and of termination, under Spec and FairSpec *)

\* C19: every send of one logical request passes the identical outbound
\* request (same method, URL and headers) to the inner transport, and the
\* transport does not modify the request between attempts.
C19_SameRequestEverySend ==
    /\ \A i \in 1..Len(trace) : \A j \in 1..Len(trace) :
          (trace[i].op = "send" /\ trace[j].op = "send") =>
              /\ trace[i].arg.method = trace[j].arg.method
              /\ trace[i].arg.url = trace[j].arg.url
              /\ trace[i].arg.headers = trace[j].arg.headers
    /\ \A i \in 1..Len(trace) : trace[i].op = "send" => trace[i].arg = request

C19_Witness ==
    /\ pc = "returned"
    /\ Sends = MaxAttempts
    /\ request.method = "PUT"
    /\ trace[1].arg = Request("PUT")
    /\ trace[Len(trace) - 1].op = "send"
    /\ trace[Len(trace) - 1].arg = Request("PUT")

\* a send or a sleep did not complete: the inner transport raised, or
\* time.sleep raised for the duration it was given
SendOrSleepFailed ==
    /\ pc = "raised"
    /\ \/ trace[Len(trace)].op = "raise"
       \/ trace[Len(trace)].op = "sleep" /\ trace[Len(trace)].arg < 0

\* the handler returns at the first point where no attempt remains or the
\* latest response's status is not in the retryable-status set
ReturnsAtFirstPoint ==
    (Started /\ RetryableMethod) =>
        /\ \A i \in 1..(Sends - 1) :
              /\ StatusOf(i) \in self.retry_status_codes
              /\ self.max_attempts - i >= 1
        /\ pc = "returned" =>
              /\ response.id = Sends
              /\ \/ self.max_attempts - Sends < 1
                 \/ response.status_code \notin self.retry_status_codes

\* C20: for every finite max_attempts, if each inner-transport send and each
\* sleep completes, the retry loop eventually returns a response, and it
\* returns at the first point where no attempt remains or the latest
\* response's status is not in the retryable-status set.
C20_LoopReturns ==
    /\ <>(pc = "returned" \/ pc = "ValueError" \/ SendOrSleepFailed)
    /\ []ReturnsAtFirstPoint

----------------------------------------------------------------------------
(* Properties of the clients' _request_raw, under ClientSpec *)

\* the keys of the client's auth header
AuthKeys == Keys(client._auth_header)

\* C21, as stated: after any earlier requests on one AsyncHttpClient, a request
\* made with ignore_auth=True is sent, its headers hold no key of the client's
\* auth header, and they are the default headers and the call's own headers.
C21_IgnoreAuthSendsNoAuthHeader ==
    \A i \in 1..Len(calls) :
        (calls[i].class = "AsyncHttpClient" /\ calls[i].ignore_auth) =>
            /\ calls[i].request_calls >= 1
            /\ Keys(calls[i].session.headers) \cap AuthKeys = {}
            /\ calls[i].session.headers =
                   update(calls[i].headers.items, client._default_header)

\* C22, as stated: when a client has default_params, the params sent are the
\* default params overlaid with the request's params: every key of either is
\* sent, a key of both carries the request's value, and params=None counts as
\* an empty dict.
C22_RequestParamsOverDefaults ==
    \A i \in 1..Len(calls) :
        (client._default_params.given /\ calls[i].class = "HttpClient") =>
            /\ calls[i].request_calls >= 1
            /\ calls[i].kwargs_params =
                   update(client._default_params.items, calls[i].params.items)

\* C23, as stated: when every response to AsyncHttpClient.get has the status 404
\* or 500 and the client has the retry count R, the client issues R + 1 requests
\* and then raises an HTTP status error instead of returning the response.
C23_RetriesThenRaisesStatusError ==
    \A i \in 1..Len(calls) :
        (calls[i].class = "AsyncHttpClient" /\ calls[i].method = "GET"
            /\ calls[i].status \in ErrorStatuses) =>
            /\ calls[i].request_calls = client.max_retries + 1
            /\ calls[i].exception = "HTTPStatusError"

----------------------------------------------------------------------------
(* Properties of the sends, closes and sleeps of one request, under Spec *)

\* the position of the first response whose status is not retryable, 0 if
\* every response so far had a retryable status
FirstFinal ==
    LET final == {i \in 1..Sends :
                     Received(i) /\ StatusOf(i) \notin self.retry_status_codes}
    IN  IF final = {} THEN 0 ELSE CHOOSE i \in final : \A j \in final : i <= j

----------------------------------------------------------------------------
(* Properties of a transport that does not respect Retry-After, under      *)
(* SleepSpec                                                               *)

\* C25: when respect_retry_after_header is disabled the Retry-After header of
\* the response has no effect: for every header value _calculate_sleep raises
\* nothing and the computed wait is the exponential backoff with jitter for
\* the current attempts_made.
C25_DisabledHeaderHasNoEffect ==
    ~self.respect_retry_after_header =>
        /\ pc # "raised"
        /\ Calculated =>
              /\ choice \in {1, -1}
              /\ sleep_for = JitteredBackoff(attempts_made, choice)

\* a Retry-After of 90 seconds, not respected: the wait is the second backoff
C25_Witness ==
    /\ Calculated
    /\ ~self.respect_retry_after_header
    /\ SentHint = str(90)
    /\ self.backoff_factor = 100
    /\ self.jitter_ratio = 10
    /\ attempts_made = 2
    /\ choice = 1
    /\ sleep_for = 220

\* the sleeps that took place: time.sleep was called with a duration it accepts
Sleeps == Cardinality({i \in 1..Len(trace) : trace[i].op = "sleep" /\ trace[i].arg >= 0})

\* the events between the send before the one at position i and that send are
\* the response to the earlier send, its close and one sleep, in this order
CloseThenSleepBefore(i) ==
    /\ i > 4
    /\ trace[i - 4].op = "send" /\ trace[i - 4].id = trace[i].id - 1
    /\ trace[i - 3].op = "response" /\ trace[i - 3].id = trace[i].id - 1
    /\ trace[i - 2].op = "close" /\ trace[i - 2].id = trace[i].id - 1
    /\ trace[i - 1].op = "sleep" /\ trace[i - 1].id = trace[i].id - 1
    /\ trace[i - 1].arg >= 0

\* C26: between any two consecutive sends of one logical request the transport
\* performs exactly one close and then exactly one sleep, in that order; the
\* wait before the (k+1)-th send is computed from attempts_made = k and the
\* headers of the k-th response, so the first retry uses backoff_factor * 2^0;
\* the number of sleeps is the number of sends minus one.
C26_OneCloseThenOneSleepBetweenSends ==
    Started =>
        /\ \A i \in 1..Len(trace) :
              (trace[i].op = "send" /\ trace[i].id > 1) => CloseThenSleepBefore(i)
        /\ pc = "resend" =>
              /\ attempts_made = Sends
              /\ response.id = Sends
              /\ trace[Len(trace)] = Event("sleep", Sends, sleep_for)
              /\ (~self.respect_retry_after_header \/ response.headers = NoHeaders) =>
                    sleep_for = JitteredBackoff(Sends, choice)
              /\ (self.respect_retry_after_header /\ SentHint = str(5)) =>
                    sleep_for = 1000 * 5
              /\ Sleeps = Sends
        /\ pc # "resend" => Sleeps = Sends - 1

\* a third send, after the wait computed from attempts_made = 2
C26_Witness ==
    /\ pc = "loop"
    /\ Sends = 3
    /\ Sleeps = 2
    /\ self.backoff_factor = 100
    /\ trace[4].op = "sleep" /\ trace[4].arg \in {90, 110}
    /\ trace[Len(trace) - 2] = Event("sleep", 2, 220)
    /\ trace[Len(trace) - 3] = Event("close", 2, 0)

\* C27, as stated: the response the transport returns has never been closed by
\* the transport, and close is applied only to responses that are followed by
\* another send: when the request is over every closed response has a send
\* after it.
C27_ClosedOnlyBeforeAnotherSend ==
    /\ pc = "returned" => Closes(response.id) = 0
    /\ pc \in {"returned", "raised"} =>
          \A i \in 1..Len(trace) :
              trace[i].op = "close" =>
                  \E j \in (i + 1)..Len(trace) :
                      trace[j].op = "send" /\ trace[j].id = trace[i].id + 1

\* C28: the first send is unconditional: for every max_attempts, 0 and negative
\* values included, the inner transport is called at least once per logical
\* request, before anything else, and with max_attempts <= 1 it is called
\* exactly once, with no close and no sleep.
C28_FirstSendUnconditional ==
    Started =>
        /\ Sends >= 1
        /\ trace[1].op = "send" /\ trace[1].id = 1
        /\ self.max_attempts <= 1 =>
              /\ Sends = 1
              /\ Count(trace, "close") = 0
              /\ Count(trace, "sleep") = 0
              /\ pc \in {"loop", "returned", "raised"}

\* a retryable request answered 429 through a transport with max_attempts -1
C28_Witness ==
    /\ pc = "returned"
    /\ self.max_attempts = -1
    /\ RetryableMethod
    /\ response.status_code = 429
    /\ response.status_code \in self.retry_status_codes
    /\ Sends = 1

\* the handler was left by an exception of the inner transport
InnerTransportRaised ==
    /\ pc = "raised"
    /\ trace # <<>>
    /\ trace[Len(trace)].op = "raise"

\* C29: whenever the transport exits because the inner transport raised, every
\* response it had received earlier for that logical request has already been
\* closed: no response is left open on the exception path.
C29_NothingOpenWhenInnerRaises ==
    InnerTransportRaised =>
        /\ \A id \in 1..(Sends - 1) : Received(id) /\ Closes(id) = 1
        /\ ~Received(Sends)
        /\ Count(trace, "close") = Count(trace, "response")

\* the third send raises after two responses were received and closed
C29_Witness ==
    /\ InnerTransportRaised
    /\ exception = "ConnectError"
    /\ Sends = 3
    /\ Closes(1) = 1
    /\ Closes(2) = 1

----------------------------------------------------------------------------
(* Properties of the retryable sets, under ConstructSpec *)

\* C30: a retryable_methods or retry_status_codes argument that is None or an
\* empty collection selects the default set (HEAD, GET, PUT, DELETE, OPTIONS,
\* TRACE; 413, 429, 503, 504); a non-empty argument replaces the default set
\* entirely; so neither set of a constructed transport is empty.
C30_EmptySelectsDefaults ==
    pc \notin {"new", "ValueError"} =>
        /\ self.retryable_methods =
              IF args.retryable_methods \in {NoneArg, Arg({})}
              THEN {"HEAD", "GET", "PUT", "DELETE", "OPTIONS", "TRACE"}
              ELSE args.retryable_methods.items
        /\ self.retry_status_codes =
              IF args.retry_status_codes \in {NoneArg, Arg({})}
              THEN {413, 429, 503, 504}
              ELSE args.retry_status_codes.items
        /\ self.retryable_methods # {}
        /\ self.retry_status_codes # {}

\* an empty retryable_methods beside a non-empty retry_status_codes
C30_Witness ==
    /\ pc = "idle"
    /\ args.retryable_methods = Arg({})
    /\ args.retry_status_codes = Arg({500})
    /\ self.retryable_methods = RETRYABLE_METHODS
    /\ self.retry_status_codes = {500}

====
